---- MODULE Spec2Model ----
(***************************************************************************)
(* DiskAtlasPy: the scan engine (diskatlas/scanner.py), the worker thread  *)
(* that runs it (ScanThread, diskatlas/app.py) and the handlers that       *)
(* receive its signals (MainWindow.on_scan_done / on_scan_error).          *)
(*                                                                         *)
(* Encoding.  A path is a sequence of name components; the empty sequence  *)
(* is the empty string.  A name is a natural number n that stands for the  *)
(* file name whose extension is RawExt(n); names and paths are ordered the *)
(* way Python orders the strings they stand for (component by component).  *)
(* The file system is not fixed in advance: every step of a directory      *)
(* listing draws the next entry (a file of some size, a sub-directory, a   *)
(* symbolic link, an entry whose stat() fails), the end of the listing or  *)
(* an OSError, so all directory trees, sizes and enumeration orders within *)
(* the bounds are explored.                                                *)
(***************************************************************************)
EXTENDS Integers, Sequences, FiniteSets, TLC

\* ------------------------------------------------------------- bounds
MaxRoots == 2          \* length of the root list, and number of distinct root names
MaxEntries == 3        \* directory entries yielded during one scan (all listings together)
MaxSize == 2           \* largest file size
MaxLimit == 2          \* largest value of top_files_per_dir and of global_top_files
MaxTick == 2           \* longest time between two readings of time.time(), in ticks
MaxKids == 3           \* most children handed to squarify
MaxKidSize == 3        \* largest size of a child handed to squarify
MaxSide == 3           \* largest width and height of the target rectangle
MaxWalkDirs == 2       \* most directories os.walk visits under one root
MaxWalkFiles == 2      \* most files in one directory os.walk visits
MaxCalls == 2          \* calls of iter_all_files in a row
MaxScans == 3          \* most calls of start_scan that start a ScanThread

\* The throttle of emit, 0.10 s, in ticks of 50 ms.
ThrottleTicks == 2

VARIABLES
    arg_paths,          \* the `paths` argument of scan_paths / ScanThread(paths)
    missing,            \* environment: root paths that do not exist
    top_files_per_dir,  \* argument of scan_paths
    global_top_files,   \* argument of scan_paths
    cancel,             \* CancelFlag._cancel of the worker's cancel_flag
    pc,                 \* position of the worker thread
    paths,              \* scan_paths: the normalised root list
    root,               \* scan_paths: the synthetic root Node
    files, dirs, bytes_scanned, ext_stats, global_top,   \* scan_paths locals
    nextroot,           \* index of the root the for loop of line 131 takes next
    stack,              \* active scan_dir calls, innermost last
    ret,                \* the value most recently returned by a scan_dir call
    result,             \* <<>> or <<the ScanResult returned by scan_paths>>
    signal,             \* the terminal signal ScanThread emitted: "none", "done", "error"
    current_scan,       \* MainWindow.current_scan: <<>> (None) or <<ScanResult>>
    nentries,           \* entries yielded so far (bounds the listing)
    cancel_seen,        \* history: some evaluation of cancel_flag() returned true
    listed,             \* history: number of directories os.scandir opened
    allfiles,           \* history: sizes of the files visited, in encounter order
    links,              \* history: number of entries skipped as symbolic links
    progress,           \* argument of scan_paths: TRUE iff a progress callback was passed
    elapsed,            \* emit: now - last_emit at the latest reading of time.time(),
                        \* in ticks, kept up to ThrottleTicks
    call_gap,           \* history: time between the last two calls of progress (-1: none)
    last_progress,      \* <<>> or <<the arguments of the latest call of progress>>
    kids,               \* squarify: the `nodes` argument
    target,             \* squarify: the arguments x, y, w, h as a Rect
    sq_pc,              \* position of the squarify call
    sq_nodes,           \* squarify: `nodes` after lines 48-49
    areas, out, row, row_nodes, remaining,     \* squarify locals
    sq_i,               \* squarify: the loop index i, counted from 1
    w_paths,            \* iter_all_files: the `paths` argument
    w_fs,               \* environment: for each root name, what os.walk yields there
    w_flag,             \* CancelFlag._cancel of the cancel_flag argument
    w_pc,               \* position of the generator: "idle", "walk", "files", "ended"
    w_root, w_dir, w_file,   \* indices of the three nested loops, counted from 1
    yielded,            \* the paths yielded by the current call, in order
    w_seen,             \* history: an evaluation of cancel_flag() returned true
    w_calls,            \* number of calls of iter_all_files so far
    prev_out,           \* <<>> or <<what the previous call of squarify returned>>
    view,               \* <<>> or <<limit and result of the latest top_children_for_view>>
    win_threads,        \* the ScanThreads start_scan created, in order: state and flag
    win_scan_thread,    \* self.scan_thread: 0 (None) or the index of a ScanThread
    win_current         \* self.current_scan: 0 (None) or the index of the ScanThread
                        \* whose result it is

svars == <<arg_paths, missing, top_files_per_dir, global_top_files, cancel, pc, paths,
          root, files, dirs, bytes_scanned, ext_stats, global_top, nextroot, stack, ret,
          result, signal, current_scan, nentries, cancel_seen, listed, allfiles, links>>

pvars == <<progress, elapsed, call_gap, last_progress>>

tvars == <<kids, target, sq_pc, sq_nodes, areas, out, row, row_nodes, remaining, sq_i>>

wvars == <<w_paths, w_fs, w_flag, w_pc, w_root, w_dir, w_file, yielded, w_seen, w_calls>>

uvars == <<prev_out, view>>

gvars == <<win_threads, win_scan_thread, win_current>>

xvars == <<wvars, uvars, gvars>>

vars == <<svars, pvars, tvars, xvars>>

\* ------------------------------------------------------------- helpers
Min(a, b) == IF a < b THEN a ELSE b
Max(a, b) == IF a > b THEN a ELSE b

RECURSIVE SumSeq(_)
SumSeq(s) == IF s = <<>> THEN 0 ELSE s[1] + SumSeq(Tail(s))

Front(s) == SubSeq(s, 1, Len(s) - 1)

Names == 1..MaxEntries
Sizes == 0..MaxSize
\* The root lists given to scan_paths: the k-th element is the empty string or
\* the root path named k.
ArgPaths == UNION {{ps \in [1..k -> {<<>>} \cup {<<n>> : n \in 1..k}] :
                       \A j \in 1..k : ps[j] \in {<<>>, <<j>>}} : k \in 0..MaxRoots}

\* The limits given to scan_paths, <<top_files_per_dir, global_top_files>>: every
\* value 0..MaxLimit of each limit occurs; the code never combines the two.
Limits == {<<k, MaxLimit - k>> : k \in 0..MaxLimit}

\* ------------------------------------------------------------- strings
\* Python's < on the strings two paths stand for.
RECURSIVE PathLess(_, _)
PathLess(p, q) ==
    IF q = <<>> THEN FALSE
    ELSE IF p = <<>> THEN TRUE
    ELSE IF p[1] # q[1] THEN p[1] < q[1]
    ELSE PathLess(Tail(p), Tail(q))

\* Python's < on the tuples (sz, path) of global_top and (sz, name, path) of local_top.
ItemLess(a, b) ==
    IF a[1] # b[1] THEN a[1] < b[1]
    ELSE IF Len(a) = 2 THEN PathLess(a[2], b[2])
    ELSE IF a[2] # b[2] THEN a[2] < b[2]
    ELSE PathLess(a[3], b[3])

\* os.path.splitext(entry.name)[1] of the name n.
RawExt(n) == CASE n % 3 = 1 -> "" [] n % 3 = 2 -> ".TXT" [] OTHER -> ".txt"

\* str.lower() on the extensions of the model.
Lower(e) == IF e = ".TXT" THEN ".txt" ELSE e

NoExt == "<no extension>"

\* os.path.splitext(entry.name)[1].lower() or "<без расширения>"
ExtOf(n) == IF Lower(RawExt(n)) = "" THEN NoExt ELSE Lower(RawExt(n))

\* ";".join(paths); the component 0 stands for the separator.
RECURSIVE JoinPaths(_)
JoinPaths(ps) ==
    IF ps = <<>> THEN <<>>
    ELSE IF Len(ps) = 1 THEN ps[1]
    ELSE ps[1] \o <<0>> \o JoinPaths(Tail(ps))

\* os.path.basename(path.rstrip("\\/")) or path
BaseName(p) == IF p = <<>> THEN <<"base", 0>> ELSE <<"base", p[Len(p)]>>

\* ------------------------------------------------------------- models.py
Node(name, path, is_dir, size, children) ==
    [name |-> name, path |-> path, is_dir |-> is_dir, size |-> size, children |-> children]

ScanResult(r, es, tf, sp, f, d, b) ==
    [root |-> r, ext_stats |-> es, top_files |-> tf, scanned_paths |-> sp,
     files |-> f, dirs |-> d, bytes_scanned |-> b]

\* ------------------------------------------------------------- heapq
\* heapq._siftdown(heap, startpos, pos) with newitem = item (1-based positions).
RECURSIVE SiftDown(_, _, _, _)
SiftDown(heap, startpos, pos, item) ==
    IF pos > startpos /\ ItemLess(item, heap[pos \div 2])
    THEN SiftDown([heap EXCEPT ![pos] = heap[pos \div 2]], startpos, pos \div 2, item)
    ELSE [heap EXCEPT ![pos] = item]

\* heapq._siftup(heap, pos): move the smaller child up until a leaf, then sift down.
RECURSIVE SiftUpLoop(_, _, _, _)
SiftUpLoop(heap, startpos, pos, item) ==
    LET childpos == 2 * pos
        rightpos == childpos + 1
        c == IF rightpos <= Len(heap) /\ ~ItemLess(heap[childpos], heap[rightpos])
             THEN rightpos ELSE childpos
    IN  IF childpos <= Len(heap)
        THEN SiftUpLoop([heap EXCEPT ![pos] = heap[c]], startpos, c, item)
        ELSE SiftDown(heap, startpos, pos, item)

HeapPush(heap, item) == SiftDown(Append(heap, item), 1, Len(heap) + 1, item)

HeapReplace(heap, item) == SiftUpLoop(heap, 1, 1, item)

\* sorted(seq, key=lambda x: x[0], reverse=True) and list.sort(...): stable.
RECURSIVE InsertDesc(_, _)
InsertDesc(sorted, x) ==
    IF sorted = <<>> THEN <<x>>
    ELSE IF sorted[1][1] >= x[1] THEN <<sorted[1]>> \o InsertDesc(Tail(sorted), x)
    ELSE <<x>> \o sorted

RECURSIVE SortedDesc(_)
SortedDesc(s) ==
    IF s = <<>> THEN <<>> ELSE InsertDesc(SortedDesc(Front(s)), s[Len(s)])

\* ------------------------------------------------------------- treemap.py
\* Python floats are modelled by exact rationals <<numerator, denominator>> in
\* lowest terms, the denominator positive; <<1, 0>> is float("inf").
RECURSIVE GCD(_, _)
GCD(a, b) == IF b = 0 THEN a ELSE GCD(b, a % b)

Abs(n) == IF n < 0 THEN -n ELSE n

QNorm(n, d) ==
    IF d = 0 THEN <<1, 0>>
    ELSE LET sn == IF d < 0 THEN -n ELSE n
             sd == Abs(d)
             g == GCD(Abs(sn), sd)
         IN  <<sn \div g, sd \div g>>

Q(n) == <<n, 1>>
Inf == <<1, 0>>
QAdd(a, b) == QNorm(a[1] * b[2] + b[1] * a[2], a[2] * b[2])
QSub(a, b) == QNorm(a[1] * b[2] - b[1] * a[2], a[2] * b[2])
QMul(a, b) == QNorm(a[1] * b[1], a[2] * b[2])
\* a / b for b # 0
QDiv(a, b) == QNorm(a[1] * b[2], a[2] * b[1])
QLess(a, b) == a[1] * b[2] < b[1] * a[2]
QLeq(a, b) == a[1] * b[2] <= b[1] * a[2]
QMax(a, b) == IF QLess(a, b) THEN b ELSE a
QMin(a, b) == IF QLess(b, a) THEN b ELSE a

RECURSIVE QSum(_)
QSum(s) == IF s = <<>> THEN Q(0) ELSE QAdd(s[1], QSum(Tail(s)))

RECURSIVE QMaxOf(_)
QMaxOf(s) == IF Len(s) = 1 THEN s[1] ELSE QMax(s[1], QMaxOf(Tail(s)))

RECURSIVE QMinOf(_)
QMinOf(s) == IF Len(s) = 1 THEN s[1] ELSE QMin(s[1], QMinOf(Tail(s)))

\* class Rect
Rect(x, y, w, h) == [x |-> x, y |-> y, w |-> w, h |-> h]

\* _normalize_sizes returning the sizes as they are, not scaled to the area.
NormalizeSizesUnscaled(ns, area) == [k \in 1..Len(ns) |-> Q(Max(0, ns[k].size))]

\* _normalize_sizes(nodes, area)
NormalizeSizes(ns, area) ==
    LET s == SumSeq([k \in 1..Len(ns) |-> Max(0, ns[k].size)])
        total == IF s = 0 THEN 1 ELSE s
    IN  [k \in 1..Len(ns) |-> QDiv(QMul(Q(Max(0, ns[k].size)), area), Q(total))]

\* _worst(row, w) divides by s * s and by w2 * rmin: ZeroDivisionError when
\* either is zero.
WorstRaises(r, w) ==
    /\ r # <<>>
    /\ \/ QMul(QSum(r), QSum(r)) = Q(0)
       \/ QMul(QMul(w, w), QMinOf(r)) = Q(0)

\* _worst(row, w), where it does not raise
Worst(r, w) ==
    IF r = <<>> THEN Inf
    ELSE LET s == QSum(r)
             w2 == QMul(w, w)
         IN  QMax(QDiv(QMul(w2, QMaxOf(r)), QMul(s, s)),
                  QDiv(QMul(s, s), QMul(w2, QMinOf(r))))

\* _layout_row without `x += w` and `y += h`: every rectangle of the row starts
\* at the row's corner.
LayoutRowStacked(r, rect, horizontal) ==
    LET s == QSum(r)
    IN  IF horizontal
        THEN LET h == IF QLess(Q(0), rect.w) THEN QDiv(s, rect.w) ELSE Q(0)
                 w(k) == IF QLess(Q(0), h) THEN QDiv(r[k], h) ELSE Q(0)
             IN  [out |-> [k \in 1..Len(r) |-> Rect(rect.x, rect.y, w(k), h)],
                  rem |-> Rect(rect.x, QAdd(rect.y, h), rect.w,
                               QMax(Q(0), QSub(rect.h, h)))]
        ELSE LET w == IF QLess(Q(0), rect.h) THEN QDiv(s, rect.h) ELSE Q(0)
                 h(k) == IF QLess(Q(0), w) THEN QDiv(r[k], w) ELSE Q(0)
             IN  [out |-> [k \in 1..Len(r) |-> Rect(rect.x, rect.y, w, h(k))],
                  rem |-> Rect(QAdd(rect.x, w), rect.y,
                               QMax(Q(0), QSub(rect.w, w)), rect.h)]

\* _layout_row(row, rect, horizontal): the row's rectangles and what remains
LayoutRow(r, rect, horizontal) ==
    LET s == QSum(r)
    IN  IF horizontal
        THEN LET h == IF QLess(Q(0), rect.w) THEN QDiv(s, rect.w) ELSE Q(0)
                 w(k) == IF QLess(Q(0), h) THEN QDiv(r[k], h) ELSE Q(0)
                 x(k) == QAdd(rect.x, QSum([j \in 1..(k - 1) |-> w(j)]))
             IN  [out |-> [k \in 1..Len(r) |-> Rect(x(k), rect.y, w(k), h)],
                  rem |-> Rect(rect.x, QAdd(rect.y, h), rect.w,
                               QMax(Q(0), QSub(rect.h, h)))]
        ELSE LET w == IF QLess(Q(0), rect.h) THEN QDiv(s, rect.h) ELSE Q(0)
                 h(k) == IF QLess(Q(0), w) THEN QDiv(r[k], w) ELSE Q(0)
                 y(k) == QAdd(rect.y, QSum([j \in 1..(k - 1) |-> h(j)]))
             IN  [out |-> [k \in 1..Len(r) |-> Rect(rect.x, y(k), w, h(k))],
                  rem |-> Rect(QAdd(rect.x, w), rect.y,
                               QMax(Q(0), QSub(rect.w, w)), rect.h)]

\* nodes.sort(key=lambda n: n.size, reverse=True): stable
RECURSIVE InsertBySize(_, _)
InsertBySize(sorted, n) ==
    IF sorted = <<>> THEN <<n>>
    ELSE IF sorted[1].size >= n.size THEN <<sorted[1]>> \o InsertBySize(Tail(sorted), n)
    ELSE <<n>> \o sorted

RECURSIVE SortBySize(_)
SortBySize(ns) ==
    IF ns = <<>> THEN <<>> ELSE InsertBySize(SortBySize(Front(ns)), ns[Len(ns)])

\* short = min(remaining.w, remaining.h) or 1.0
Short(rect) ==
    LET m == QMin(rect.w, rect.h) IN IF m = Q(0) THEN Q(1) ELSE m

\* horizontal = remaining.w >= remaining.h
Horizontal(rect) == QLeq(rect.h, rect.w)

\* The children lists squarify is called with: up to MaxKids Nodes of sizes
\* 0..MaxKidSize, the k-th named k.
KidLists ==
    UNION {{[k \in 1..n |-> Node(<<"base", k>>, <<k>>, FALSE, f[k], <<>>)] :
                f \in [1..n -> 0..MaxKidSize]} : n \in 0..MaxKids}

\* The corners (x, y) squarify is called with.
Origins == {<<0, 0>>, <<1, 2>>}

\* The target rectangles squarify is called with.
Targets ==
    {Rect(Q(o[1]), Q(o[2]), Q(w), Q(h)) : o \in Origins, w \in 0..MaxSide, h \in 0..MaxSide}

\* The locals of squarify before line 48.
NoLocals ==
    /\ sq_nodes = <<>>
    /\ areas = <<>>
    /\ out = <<>>
    /\ row = <<>>
    /\ row_nodes = <<>>
    /\ remaining = Rect(Q(0), Q(0), Q(0), Q(0))
    /\ sq_i = 1

\* iter_all_files has not been called.
WalkIdle ==
    /\ w_paths = <<>>
    /\ w_fs = <<>>
    /\ w_flag = FALSE
    /\ w_pc = "idle"
    /\ w_root = 1
    /\ w_dir = 1
    /\ w_file = 1
    /\ yielded = <<>>
    /\ w_seen = FALSE
    /\ w_calls = 0

\* Nothing has been returned by the treemap functions yet.
NoViews ==
    /\ prev_out = <<>>
    /\ view = <<>>

\* MainWindow.__init__: no ScanThread (line 650), no scan result.
WindowIdle ==
    /\ win_threads = <<>>
    /\ win_scan_thread = 0
    /\ win_current = 0

\* No call of squarify is under way.
TreemapIdle ==
    /\ kids = <<>>
    /\ target = Rect(Q(0), Q(0), Q(0), Q(0))
    /\ sq_pc = "idle"
    /\ NoLocals

\* ------------------------------------------------------------- scanner.py
\* _push_top with the comparison of line 21 reversed.
PushTopReversed(heap, item, limit) ==
    IF limit <= 0 THEN heap
    ELSE IF Len(heap) < limit THEN HeapPush(heap, item)
    ELSE IF item[1] < heap[1][1] THEN HeapReplace(heap, item)
    ELSE heap

\* _push_top(heap, item, limit)
PushTop(heap, item, limit) ==
    IF limit <= 0 THEN heap
    ELSE IF Len(heap) < limit THEN HeapPush(heap, item)
    ELSE IF item[1] > heap[1][1] THEN HeapReplace(heap, item)
    ELSE heap

\* Line 31 without its `if p` filter.
KeepAllPaths(ps) == ps

\* paths = [os.path.abspath(p) for p in paths if p]
FilterPaths(ps) == SelectSeq(ps, LAMBDA p : p # <<>>)

\* cancel_flag and cancel_flag(), as scan_dir evaluates it at its top (line 57)
TopCancelled == cancel

\* The entry loop without the check of lines 67-68.
LoopNeverCancelled == FALSE

\* cancel_flag and cancel_flag(), as the entry loop evaluates it (line 67)
LoopCancelled == cancel

\* cancel_flag and cancel_flag(), as the loop over the roots evaluates it (line 132)
RootCancelled == cancel

\* The state a scan_dir call starts in (lines 54-62).
NewFrame(dir_path) ==
    [node |-> Node(BaseName(dir_path), dir_path, TRUE, 0, <<>>),
     st |-> "top",
     local_top |-> <<>>,
     local_files_count |-> 0,
     local_other_bytes |-> 0,
     used |-> {},
     seen |-> <<>>]

\* Lines 100-109 without the heapreplace of line 105: a full heap keeps its files.
LocalPushNoReplace(f, sz, name, path) ==
    IF top_files_per_dir > 0 /\ Len(f.local_top) < top_files_per_dir
    THEN [f EXCEPT !.local_top = HeapPush(@, <<sz, name, path>>)]
    ELSE [f EXCEPT !.local_other_bytes = @ + sz]

\* Lines 100-109: the per-directory retention of one file.
LocalPush(f, sz, name, path) ==
    IF top_files_per_dir > 0
    THEN IF Len(f.local_top) < top_files_per_dir
         THEN [f EXCEPT !.local_top = HeapPush(@, <<sz, name, path>>)]
         ELSE IF sz > f.local_top[1][1]
              THEN [f EXCEPT !.local_top = HeapReplace(@, <<sz, name, path>>)]
              ELSE [f EXCEPT !.local_other_bytes = @ + sz]
    ELSE [f EXCEPT !.local_other_bytes = @ + sz]

\* Lines 117-118: one file Node per retained file, largest first.
NamedChildren(lt) ==
    [k \in 1..Len(lt) |-> Node(<<"base", lt[k][2]>>, lt[k][3], FALSE, lt[k][1], <<>>)]

\* Lines 120-128 without the test local_other_bytes > 0 of line 121.
OverflowChildrenAnyBytes(f) ==
    LET other_count == Max(0, f.local_files_count - Len(f.local_top))
    IN  IF other_count > 0
        THEN <<Node(<<"other", other_count>>, f.node.path, FALSE, f.local_other_bytes, <<>>)>>
        ELSE <<>>

\* Lines 120-128: the synthetic overflow child, if any.
OverflowChildren(f) ==
    LET other_count == Max(0, f.local_files_count - Len(f.local_top))
    IN  IF other_count > 0 /\ f.local_other_bytes > 0
        THEN <<Node(<<"other", other_count>>, f.node.path, FALSE, f.local_other_bytes, <<>>)>>
        ELSE <<>>

\* Lines 115-129: the Node a scan_dir call returns after its loop.
FinishNode(f) ==
    [f.node EXCEPT !.children =
        @ \o NamedChildren(SortedDesc(f.local_top)) \o OverflowChildren(f)]

\* now - last_emit as far as the model measures it; the first reading of the
\* clock is this far from last_emit = 0.0.
LongAgo == ThrottleTicks + MaxTick

\* Line 48 without its test: every call of emit reaches the callback.
AlwaysDue(e) == TRUE

\* now - last_emit >= 0.10
Due(e) == e >= ThrottleTicks

\* emit passing root.size, which grows only when a root returns, as the bytes.
EmitRootSize(cur, f, d, b) ==
    IF ~progress
    THEN UNCHANGED pvars
    ELSE \E t \in 0..MaxTick :
            LET e == Min(elapsed + t, LongAgo)
            IN  /\ progress' = progress
                /\ IF Due(e)
                   THEN /\ elapsed' = 0
                        /\ call_gap' = IF last_progress = <<>> THEN -1 ELSE e
                        /\ last_progress' = <<[cur |-> cur, files |-> f,
                                               dirs |-> d, bytes |-> root.size]>>
                   ELSE /\ elapsed' = e
                        /\ UNCHANGED <<call_gap, last_progress>>

\* emit(cur), lines 44-50; f, d, b are files, dirs and bytes_scanned as the
\* callback receives them.  The clock has advanced by t ticks since it was last read.
Emit(cur, f, d, b) ==
    IF ~progress
    THEN UNCHANGED pvars
    ELSE \E t \in 0..MaxTick :
            LET e == Min(elapsed + t, LongAgo)
            IN  /\ progress' = progress
                /\ IF Due(e)
                   THEN /\ elapsed' = 0
                        /\ call_gap' = IF last_progress = <<>> THEN -1 ELSE e
                        /\ last_progress' = <<[cur |-> cur, files |-> f,
                                               dirs |-> d, bytes |-> b]>>
                   ELSE /\ elapsed' = e
                        /\ UNCHANGED <<call_gap, last_progress>>

\* ReturnNode with line 135 inserting the root's Node in front of its siblings.
ReturnNodePrepend(child, status) ==
    LET f == stack[Len(stack)]
    IN  /\ ret' = [node |-> child, status |-> status, seen |-> f.seen]
        /\ IF Len(stack) = 1
           THEN /\ stack' = <<>>
                /\ root' = [root EXCEPT !.children = <<child>> \o @,
                                        !.size = @ + child.size]
                /\ nextroot' = nextroot + 1
                /\ pc' = "roots"
                /\ UNCHANGED pvars
           ELSE /\ stack' = [Front(stack) EXCEPT
                               ![Len(stack) - 1].node.children = Append(@, child),
                               ![Len(stack) - 1].node.size = @ + child.size]
                /\ UNCHANGED <<root, nextroot, pc>>
                /\ Emit(stack[Len(stack) - 1].node.path, files, dirs, bytes_scanned)

\* A scan_dir call returns `child`: lines 85-86 and 111 in the calling scan_dir,
\* or lines 135-136 in scan_paths.
ReturnNode(child, status) ==
    LET f == stack[Len(stack)]
    IN  /\ ret' = [node |-> child, status |-> status, seen |-> f.seen]
        /\ IF Len(stack) = 1
           THEN /\ stack' = <<>>
                /\ root' = [root EXCEPT !.children = Append(@, child),
                                        !.size = @ + child.size]
                /\ nextroot' = nextroot + 1
                /\ pc' = "roots"
                /\ UNCHANGED pvars
           ELSE /\ stack' = [Front(stack) EXCEPT
                               ![Len(stack) - 1].node.children = Append(@, child),
                               ![Len(stack) - 1].node.size = @ + child.size]
                /\ UNCHANGED <<root, nextroot, pc>>
                /\ Emit(stack[Len(stack) - 1].node.path, files, dirs, bytes_scanned)

NoResult == <<>>

\* ext_stats = {}
NoStats == [e \in {} |-> <<0, 0>>]

\* The state before scan_paths starts, its arguments apart.
Idle ==
    /\ cancel = FALSE
    /\ pc = "start"
    /\ paths = <<>>
    /\ root = Node(<<"base", 0>>, <<>>, TRUE, 0, <<>>)
    /\ files = 0
    /\ dirs = 0
    /\ bytes_scanned = 0
    /\ ext_stats = NoStats
    /\ global_top = <<>>
    /\ nextroot = 1
    /\ stack = <<>>
    /\ ret = [node |-> Node(<<"base", 0>>, <<>>, TRUE, 0, <<>>), status |-> "none", seen |-> <<>>]
    /\ result = NoResult
    /\ signal = "none"
    /\ current_scan = NoResult
    /\ nentries = 0
    /\ cancel_seen = FALSE
    /\ listed = 0
    /\ allfiles = <<>>
    /\ links = 0
    /\ elapsed = LongAgo
    /\ call_gap = -1
    /\ last_progress = <<>>

\* A scan without a progress callback: emit returns at line 46.
Init ==
    /\ arg_paths \in ArgPaths
    /\ missing \in SUBSET {arg_paths[k] : k \in 1..Len(arg_paths)}
    /\ <<>> \notin missing
    /\ \E l \in Limits : top_files_per_dir = l[1] /\ global_top_files = l[2]
    /\ progress = FALSE
    /\ Idle
    /\ TreemapIdle
    /\ NoViews
    /\ WindowIdle
    /\ WalkIdle

\* A scan of one root (an existing directory, or the empty string) that reports
\* its progress.
InitProgress ==
    /\ arg_paths \in {<<<<>>>>, <<<<1>>>>}
    /\ missing = {}
    /\ \E l \in Limits : top_files_per_dir = l[1] /\ global_top_files = l[2]
    /\ progress = TRUE
    /\ Idle
    /\ TreemapIdle
    /\ NoViews
    /\ WindowIdle
    /\ WalkIdle

\* A run of ScanThread on one root (an existing directory, or the empty string).
InitLive ==
    /\ arg_paths \in {<<<<>>>>, <<<<1>>>>}
    /\ missing = {}
    /\ \E l \in Limits : top_files_per_dir = l[1] /\ global_top_files = l[2]
    /\ progress = FALSE
    /\ Idle
    /\ TreemapIdle
    /\ NoViews
    /\ WindowIdle
    /\ WalkIdle

\* MainWindow.cancel_scan -> CancelFlag.cancel(), from the GUI thread.
Cancel ==
    /\ pc \in {"start", "roots", "dir"}
    /\ ~cancel
    /\ cancel' = TRUE
    /\ UNCHANGED pvars
    /\ UNCHANGED links
    /\ UNCHANGED tvars
    /\ UNCHANGED xvars
    /\ UNCHANGED <<arg_paths, missing, top_files_per_dir, global_top_files, pc, paths,
                   root, files, dirs, bytes_scanned, ext_stats, global_top, nextroot,
                   stack, ret, result, signal, current_scan, nentries, cancel_seen,
                   listed, allfiles>>

\* scan_paths lines 30-42 with a non-empty filtered list.
Begin ==
    /\ pc = "start"
    /\ FilterPaths(arg_paths) # <<>>
    /\ paths' = FilterPaths(arg_paths)
    /\ root' = Node(IF Len(paths') > 1 THEN <<"multi", 0>> ELSE BaseName(paths'[1]),
                    JoinPaths(paths'), TRUE, 0, <<>>)
    /\ pc' = "roots"
    /\ UNCHANGED pvars
    /\ UNCHANGED links
    /\ UNCHANGED tvars
    /\ UNCHANGED xvars
    /\ UNCHANGED <<arg_paths, missing, top_files_per_dir, global_top_files, cancel,
                   files, dirs, bytes_scanned, ext_stats, global_top, nextroot, stack,
                   ret, result, signal, current_scan, nentries, cancel_seen, listed,
                   allfiles>>

\* scan_paths lines 30-33 with an empty filtered list: paths[0] raises IndexError.
BeginRaises ==
    /\ pc = "start"
    /\ FilterPaths(arg_paths) = <<>>
    /\ paths' = FilterPaths(arg_paths)
    /\ pc' = "raised"
    /\ UNCHANGED pvars
    /\ UNCHANGED links
    /\ UNCHANGED tvars
    /\ UNCHANGED xvars
    /\ UNCHANGED <<arg_paths, missing, top_files_per_dir, global_top_files, cancel,
                   root, files, dirs, bytes_scanned, ext_stats, global_top, nextroot,
                   stack, ret, result, signal, current_scan, nentries, cancel_seen,
                   listed, allfiles>>

\* scan_paths lines 131-134: the loop takes the next root and calls scan_dir.
CallRoot ==
    /\ pc = "roots"
    /\ nextroot <= Len(paths)
    /\ ~RootCancelled
    /\ stack' = <<NewFrame(paths[nextroot])>>
    /\ pc' = "dir"
    /\ UNCHANGED pvars
    /\ UNCHANGED links
    /\ UNCHANGED tvars
    /\ UNCHANGED xvars
    /\ UNCHANGED <<arg_paths, missing, top_files_per_dir, global_top_files, cancel,
                   paths, root, files, dirs, bytes_scanned, ext_stats, global_top,
                   nextroot, ret, result, signal, current_scan, nentries, cancel_seen,
                   listed, allfiles>>

\* scan_paths lines 131-133 and 138-149: the loop ends (exhausted, or break on
\* cancellation) and the ScanResult is built and returned.
Return ==
    /\ pc = "roots"
    /\ nextroot > Len(paths) \/ RootCancelled
    /\ cancel_seen' = (cancel_seen \/ nextroot <= Len(paths))
    /\ result' = <<ScanResult(root, ext_stats, SortedDesc(global_top), paths,
                              files, dirs, bytes_scanned)>>
    /\ pc' = "returned"
    /\ UNCHANGED pvars
    /\ UNCHANGED links
    /\ UNCHANGED tvars
    /\ UNCHANGED xvars
    /\ UNCHANGED <<arg_paths, missing, top_files_per_dir, global_top_files, cancel,
                   paths, root, files, dirs, bytes_scanned, ext_stats, global_top,
                   nextroot, stack, ret, signal, current_scan, nentries, listed,
                   allfiles>>

InDir(st) == pc = "dir" /\ stack # <<>> /\ stack[Len(stack)].st = st

\* scan_dir lines 57-58: cancellation seen at the top of the call.
ScanDirCancelled ==
    /\ InDir("top")
    /\ TopCancelled
    /\ cancel_seen' = TRUE
    /\ ReturnNode(stack[Len(stack)].node, "cancel_top")
    /\ UNCHANGED links
    /\ UNCHANGED tvars
    /\ UNCHANGED xvars
    /\ UNCHANGED <<arg_paths, missing, top_files_per_dir, global_top_files, cancel,
                   paths, files, dirs, bytes_scanned, ext_stats, global_top, result,
                   signal, current_scan, nentries, listed, allfiles>>

\* scan_dir line 65: os.scandir(dir_path) opens the directory.
ScanDirOpen ==
    /\ InDir("top")
    /\ ~TopCancelled
    /\ Len(stack) = 1 => stack[1].node.path \notin missing
    /\ stack' = [stack EXCEPT ![Len(stack)].st = "iter"]
    /\ listed' = listed + 1
    /\ UNCHANGED pvars
    /\ UNCHANGED links
    /\ UNCHANGED tvars
    /\ UNCHANGED xvars
    /\ UNCHANGED <<arg_paths, missing, top_files_per_dir, global_top_files, cancel, pc,
                   paths, root, files, dirs, bytes_scanned, ext_stats, global_top,
                   nextroot, ret, result, signal, current_scan, nentries, cancel_seen,
                   allfiles>>

\* scan_dir without the handler of lines 112-113: the OSError of os.scandir
\* leaves scan_dir and scan_paths.
ScanDirOpenRaises ==
    /\ InDir("top")
    /\ ~TopCancelled
    /\ listed' = listed + 1
    /\ stack' = <<>>
    /\ pc' = "raised"
    /\ UNCHANGED pvars
    /\ UNCHANGED links
    /\ UNCHANGED tvars
    /\ UNCHANGED xvars
    /\ UNCHANGED <<arg_paths, missing, top_files_per_dir, global_top_files, cancel,
                   paths, root, files, dirs, bytes_scanned, ext_stats, global_top,
                   nextroot, ret, result, signal, current_scan, nentries, cancel_seen,
                   allfiles>>

\* scan_dir lines 65 and 112-113: os.scandir(dir_path) raises an OSError
\* (FileNotFoundError for a missing path, PermissionError, NotADirectoryError ...).
ScanDirOpenFails ==
    /\ InDir("top")
    /\ ~TopCancelled
    /\ listed' = listed + 1
    /\ ReturnNode(stack[Len(stack)].node, "open_fail")
    /\ UNCHANGED links
    /\ UNCHANGED tvars
    /\ UNCHANGED xvars
    /\ UNCHANGED <<arg_paths, missing, top_files_per_dir, global_top_files, cancel,
                   paths, files, dirs, bytes_scanned, ext_stats, global_top, result,
                   signal, current_scan, nentries, cancel_seen, allfiles>>

\* scan_dir lines 67-68 and 115-129: cancellation seen before an entry; break.
IterCancelled ==
    /\ InDir("iter")
    /\ LoopCancelled
    /\ cancel_seen' = TRUE
    /\ ReturnNode(FinishNode(stack[Len(stack)]), "break")
    /\ UNCHANGED links
    /\ UNCHANGED tvars
    /\ UNCHANGED xvars
    /\ UNCHANGED <<arg_paths, missing, top_files_per_dir, global_top_files, cancel,
                   paths, files, dirs, bytes_scanned, ext_stats, global_top, result,
                   signal, current_scan, nentries, listed, allfiles>>

\* scan_dir lines 66 and 115-129: the listing is exhausted.
IterEnd ==
    /\ InDir("iter")
    /\ ReturnNode(FinishNode(stack[Len(stack)]), "end")
    /\ UNCHANGED links
    /\ UNCHANGED tvars
    /\ UNCHANGED xvars
    /\ UNCHANGED <<arg_paths, missing, top_files_per_dir, global_top_files, cancel,
                   paths, files, dirs, bytes_scanned, ext_stats, global_top, result,
                   signal, current_scan, nentries, cancel_seen, listed, allfiles>>

\* Lines 112-113 returning a new empty Node in place of `node`.
IterFailsEmptyNode ==
    /\ InDir("iter")
    /\ ReturnNode(NewFrame(stack[Len(stack)].node.path).node, "iter_fail")
    /\ UNCHANGED links
    /\ UNCHANGED tvars
    /\ UNCHANGED xvars
    /\ UNCHANGED <<arg_paths, missing, top_files_per_dir, global_top_files, cancel,
                   paths, files, dirs, bytes_scanned, ext_stats, global_top, result,
                   signal, current_scan, nentries, cancel_seen, listed, allfiles>>

\* scan_dir lines 66 and 112-113: fetching the next entry raises an OSError.
IterFails ==
    /\ InDir("iter")
    /\ ReturnNode(stack[Len(stack)].node, "iter_fail")
    /\ UNCHANGED links
    /\ UNCHANGED tvars
    /\ UNCHANGED xvars
    /\ UNCHANGED <<arg_paths, missing, top_files_per_dir, global_top_files, cancel,
                   paths, files, dirs, bytes_scanned, ext_stats, global_top, result,
                   signal, current_scan, nentries, cancel_seen, listed, allfiles>>

\* An entry is fetched and the check of line 67 is negative.
EntryFetched == InDir("iter") /\ ~LoopCancelled /\ nentries < MaxEntries

\* Lines 70-74 with follow_symlinks = True: the link is not skipped, its target
\* is measured as a file.
EntrySymlinkMeasured ==
    /\ EntryFetched
    /\ nentries' = nentries + 1
    /\ links' = links + 1
    /\ files' = files + 1
    /\ \E sz \in Sizes : bytes_scanned' = bytes_scanned + sz
    /\ UNCHANGED pvars
    /\ UNCHANGED tvars
    /\ UNCHANGED xvars
    /\ UNCHANGED <<arg_paths, missing, top_files_per_dir, global_top_files, cancel, pc,
                   paths, root, dirs, ext_stats, global_top, nextroot, stack, ret,
                   result, signal, current_scan, cancel_seen, listed, allfiles>>

\* scan_dir lines 70-74: a symbolic link (follow_symlinks = False), or is_symlink()
\* raises an OSError; continue.
EntrySymlink ==
    /\ EntryFetched
    /\ nentries' = nentries + 1
    /\ UNCHANGED pvars
    /\ links' = links + 1
    /\ UNCHANGED tvars
    /\ UNCHANGED xvars
    /\ UNCHANGED <<arg_paths, missing, top_files_per_dir, global_top_files, cancel, pc,
                   paths, root, files, dirs, bytes_scanned, ext_stats, global_top,
                   nextroot, stack, ret, result, signal, current_scan, cancel_seen,
                   listed, allfiles>>

\* Lines 76-79 with `break` in place of `continue`: the failure ends the listing.
EntryStatFailsBreaks ==
    /\ EntryFetched
    /\ nentries' = nentries + 1
    /\ ReturnNode(FinishNode(stack[Len(stack)]), "break")
    /\ UNCHANGED links
    /\ UNCHANGED tvars
    /\ UNCHANGED xvars
    /\ UNCHANGED <<arg_paths, missing, top_files_per_dir, global_top_files, cancel,
                   paths, files, dirs, bytes_scanned, ext_stats, global_top, result,
                   signal, current_scan, cancel_seen, listed, allfiles>>

\* scan_dir lines 76-79: entry.stat() raises an OSError; continue.
EntryStatFails ==
    /\ EntryFetched
    /\ nentries' = nentries + 1
    /\ UNCHANGED pvars
    /\ UNCHANGED links
    /\ UNCHANGED tvars
    /\ UNCHANGED xvars
    /\ UNCHANGED <<arg_paths, missing, top_files_per_dir, global_top_files, cancel, pc,
                   paths, root, files, dirs, bytes_scanned, ext_stats, global_top,
                   nextroot, stack, ret, result, signal, current_scan, cancel_seen,
                   listed, allfiles>>

\* scan_dir lines 82-84: a directory entry; count it and call scan_dir on it.
EntryDir ==
    /\ EntryFetched
    /\ \E n \in Names \ stack[Len(stack)].used :
          stack' = Append([stack EXCEPT ![Len(stack)].used = @ \cup {n}],
                          NewFrame(stack[Len(stack)].node.path \o <<n>>))
    /\ dirs' = dirs + 1
    /\ nentries' = nentries + 1
    /\ UNCHANGED pvars
    /\ UNCHANGED links
    /\ UNCHANGED tvars
    /\ UNCHANGED xvars
    /\ UNCHANGED <<arg_paths, missing, top_files_per_dir, global_top_files, cancel, pc,
                   paths, root, files, bytes_scanned, ext_stats, global_top, nextroot,
                   ret, result, signal, current_scan, cancel_seen, listed, allfiles>>

\* Line 96 storing (sz, 1) instead of accumulating.
ExtAddOverwrite(es, ext, sz) ==
    [e \in DOMAIN es \cup {ext} |-> IF e = ext THEN <<sz, 1>> ELSE es[e]]

\* ext_stats[ext] = (b + sz, c + 1) with b, c = ext_stats.get(ext, (0, 0))
ExtAdd(es, ext, sz) ==
    LET old == IF ext \in DOMAIN es THEN es[ext] ELSE <<0, 0>>
    IN  [e \in DOMAIN es \cup {ext} |->
            IF e = ext THEN <<old[1] + sz, old[2] + 1>> ELSE es[e]]

\* scan_dir lines 87-109: a file entry.
EntryFile ==
    /\ EntryFetched
    /\ \E n \in Names \ stack[Len(stack)].used, sz \in Sizes :
          LET f == stack[Len(stack)]
              path == f.node.path \o <<n>>
              g == [f EXCEPT !.used = @ \cup {n},
                             !.local_files_count = @ + 1,
                             !.node.size = @ + sz,
                             !.seen = Append(@, <<sz, n>>)]
          IN  /\ stack' = [stack EXCEPT ![Len(stack)] = LocalPush(g, sz, n, path)]
              /\ bytes_scanned' = bytes_scanned + sz
              /\ ext_stats' = ExtAdd(ext_stats, ExtOf(n), sz)
              /\ global_top' = PushTop(global_top, <<sz, path>>, global_top_files)
              /\ allfiles' = Append(allfiles, sz)
    /\ files' = files + 1
    /\ nentries' = nentries + 1
    /\ Emit(stack[Len(stack)].node.path, files + 1, dirs, bytes_scanned')
    /\ UNCHANGED links
    /\ UNCHANGED tvars
    /\ UNCHANGED xvars
    /\ UNCHANGED <<arg_paths, missing, top_files_per_dir, global_top_files, cancel, pc,
                   paths, root, dirs, nextroot, ret, result, signal, current_scan,
                   cancel_seen, listed>>

\* ScanThread.run lines 213-215: scan_paths returned; done.emit(res).
ThreadDone ==
    /\ pc = "returned"
    /\ signal' = "done"
    /\ pc' = "finished"
    /\ UNCHANGED pvars
    /\ UNCHANGED links
    /\ UNCHANGED tvars
    /\ UNCHANGED xvars
    /\ UNCHANGED <<arg_paths, missing, top_files_per_dir, global_top_files, cancel,
                   paths, root, files, dirs, bytes_scanned, ext_stats, global_top,
                   nextroot, stack, ret, result, current_scan, nentries, cancel_seen,
                   listed, allfiles>>

\* Lines 216-217 with the exception swallowed: no signal is emitted.
ThreadErrorSilent ==
    /\ pc = "raised"
    /\ pc' = "finished"
    /\ UNCHANGED pvars
    /\ UNCHANGED links
    /\ UNCHANGED tvars
    /\ UNCHANGED xvars
    /\ UNCHANGED <<arg_paths, missing, top_files_per_dir, global_top_files, cancel,
                   paths, root, files, dirs, bytes_scanned, ext_stats, global_top,
                   nextroot, stack, ret, result, signal, current_scan, nentries,
                   cancel_seen, listed, allfiles>>

\* ScanThread.run lines 216-217: scan_paths raised; error.emit(str(e)).
ThreadError ==
    /\ pc = "raised"
    /\ signal' = "error"
    /\ pc' = "finished"
    /\ UNCHANGED pvars
    /\ UNCHANGED links
    /\ UNCHANGED tvars
    /\ UNCHANGED xvars
    /\ UNCHANGED <<arg_paths, missing, top_files_per_dir, global_top_files, cancel,
                   paths, root, files, dirs, bytes_scanned, ext_stats, global_top,
                   nextroot, stack, ret, result, current_scan, nentries, cancel_seen,
                   listed, allfiles>>

\* MainWindow.on_scan_done: the slot of ScanThread.done.
OnScanDone ==
    /\ pc = "finished"
    /\ signal = "done"
    /\ current_scan' = result
    /\ pc' = "handled"
    /\ UNCHANGED pvars
    /\ UNCHANGED links
    /\ UNCHANGED tvars
    /\ UNCHANGED xvars
    /\ UNCHANGED <<arg_paths, missing, top_files_per_dir, global_top_files, cancel,
                   paths, root, files, dirs, bytes_scanned, ext_stats, global_top,
                   nextroot, stack, ret, result, signal, nentries, cancel_seen, listed,
                   allfiles>>

\* MainWindow.on_scan_error: the slot of ScanThread.error.
OnScanError ==
    /\ pc = "finished"
    /\ signal = "error"
    /\ pc' = "handled"
    /\ UNCHANGED pvars
    /\ UNCHANGED links
    /\ UNCHANGED tvars
    /\ UNCHANGED xvars
    /\ UNCHANGED <<arg_paths, missing, top_files_per_dir, global_top_files, cancel,
                   paths, root, files, dirs, bytes_scanned, ext_stats, global_top,
                   nextroot, stack, ret, result, signal, current_scan, nentries,
                   cancel_seen, listed, allfiles>>

\* ------------------------------------------------------------- squarify
\* A call squarify(kids, x, y, w, h) on its own.
InitTreemap ==
    /\ kids \in KidLists
    /\ target \in Targets
    /\ sq_pc = "call"
    /\ NoLocals
    /\ WalkIdle
    /\ NoViews
    /\ WindowIdle
    /\ arg_paths = <<>>
    /\ missing = {}
    /\ top_files_per_dir = 0
    /\ global_top_files = 0
    /\ progress = FALSE
    /\ Idle

\* Lines 48-57 without the copy of line 48: the sort reorders the caller's list.
SquarifyCallInPlace ==
    /\ sq_pc = "call"
    /\ kids' = SortBySize(kids)
    /\ sq_nodes' = kids'
    /\ areas' = NormalizeSizes(sq_nodes', QMul(target.w, target.h))
    /\ out' = <<>>
    /\ row' = <<>>
    /\ row_nodes' = <<>>
    /\ remaining' = target
    /\ sq_i' = 1
    /\ sq_pc' = "loop"
    /\ UNCHANGED <<svars, pvars, xvars, target>>

\* squarify lines 48-57.
SquarifyCall ==
    /\ sq_pc = "call"
    /\ sq_nodes' = SortBySize(SelectSeq(kids, LAMBDA n : n.size > 0))
    /\ areas' = NormalizeSizes(sq_nodes', QMul(target.w, target.h))
    /\ out' = <<>>
    /\ row' = <<>>
    /\ row_nodes' = <<>>
    /\ remaining' = target
    /\ sq_i' = 1
    /\ sq_pc' = "loop"
    /\ UNCHANGED <<svars, pvars, xvars, kids, target>>

\* The loop of line 58 has an element left.
InLoop == sq_pc = "loop" /\ sq_i <= Len(sq_nodes)

\* Line 63 raises: one of its two calls of _worst divides by zero.
Line63Raises ==
    /\ row # <<>>
    /\ \/ WorstRaises(Append(row, areas[sq_i]), Short(remaining))
       \/ WorstRaises(row, Short(remaining))

\* Line 63: row and _worst(new_row, short) > _worst(row, short)
RowIsWorse ==
    /\ row # <<>>
    /\ QLess(Worst(row, Short(remaining)),
             Worst(Append(row, areas[sq_i]), Short(remaining)))

\* Lines 66-67 pairing the rectangles of a row with its nodes in reverse.
LaidReversed(laid) ==
    out \o [k \in 1..Len(row_nodes) |-> <<laid[Len(row_nodes) + 1 - k], row_nodes[k]>>]

\* out after `for r, nn in zip(laid, row_nodes): out.append((r, nn))`
Laid(laid) == out \o [k \in 1..Len(row_nodes) |-> <<laid[k], row_nodes[k]>>]

\* squarify line 63: ZeroDivisionError leaves squarify.
SquarifyRaises ==
    /\ InLoop
    /\ Line63Raises
    /\ sq_pc' = "raised"
    /\ UNCHANGED <<svars, pvars, xvars, kids, target, sq_nodes, areas, out, row, row_nodes,
                   remaining, sq_i>>

\* Lines 63-67 without line 68: the row laid out stays the current row.
RowClosedKeepsRow ==
    /\ InLoop
    /\ ~Line63Raises
    /\ RowIsWorse
    /\ LET l == LayoutRow(row, remaining, Horizontal(remaining))
       IN  /\ out' = Laid(l.out)
           /\ remaining' = l.rem
    /\ UNCHANGED <<svars, pvars, xvars, kids, target, sq_pc, sq_nodes, areas, sq_i, row,
                   row_nodes>>

\* squarify lines 63-68: the row is laid out and a new one begun.
RowClosed ==
    /\ InLoop
    /\ ~Line63Raises
    /\ RowIsWorse
    /\ LET l == LayoutRow(row, remaining, Horizontal(remaining))
       IN  /\ out' = Laid(l.out)
           /\ remaining' = l.rem
    /\ row' = <<>>
    /\ row_nodes' = <<>>
    /\ UNCHANGED <<svars, pvars, xvars, kids, target, sq_pc, sq_nodes, areas, sq_i>>

\* squarify lines 69-72: the element joins the row.
RowGrows ==
    /\ InLoop
    /\ ~Line63Raises
    /\ ~RowIsWorse
    /\ row' = Append(row, areas[sq_i])
    /\ row_nodes' = Append(row_nodes, sq_nodes[sq_i])
    /\ sq_i' = sq_i + 1
    /\ UNCHANGED <<svars, pvars, xvars, kids, target, sq_pc, sq_nodes, areas, out, remaining>>

\* squarify lines 74-79: the last row is laid out and out returned.
SquarifyReturn ==
    /\ sq_pc = "loop"
    /\ sq_i > Len(sq_nodes)
    /\ IF row # <<>>
       THEN LET l == LayoutRow(row, remaining, Horizontal(remaining))
            IN  /\ out' = Laid(l.out)
                /\ remaining' = l.rem
       ELSE UNCHANGED <<out, remaining>>
    /\ sq_pc' = "done"
    /\ UNCHANGED <<svars, pvars, xvars, kids, target, sq_nodes, areas, row, row_nodes, sq_i>>

NextTreemap ==
    \/ SquarifyCall
    \/ SquarifyRaises
    \/ RowClosed
    \/ RowGrows
    \/ SquarifyReturn

SpecTreemap == InitTreemap /\ [][NextTreemap]_vars

\* squarify has a statement left to execute: the states where NextTreemap is
\* enabled.
Running == sq_pc \in {"call", "loop"}

\* The call runs on: the thread that called squarify executes it to its end.
\* This is WF_vars(NextTreemap) with Running for ENABLED <<NextTreemap>>_vars.
SpecTreemapLive ==
    /\ InitTreemap
    /\ [][NextTreemap]_vars
    /\ ([]<>(~Running) \/ []<><<NextTreemap>>_vars)

\* top_children_for_view(node, limit)
TopChildrenForView(node, limit) ==
    LET ks == SortBySize(SelectSeq(node.children, LAMBDA c : c.size > 0))
    IN  SubSeq(ks, 1, Min(limit, Len(ks)))

\* The directory Node whose children are `kids`.
Parent == Node(<<"base", 0>>, <<>>, TRUE, SumSeq([k \in 1..Len(kids) |-> kids[k].size]), kids)

\* MainWindow.render_treemap line 1422, with any limit: top_children_for_view
\* is called on the Node that holds the children.
TopChildren ==
    /\ sq_pc \in {"call", "done"}
    /\ \E limit \in 0..MaxKids :
          view' = <<[limit |-> limit, result |-> TopChildrenForView(Parent, limit)]>>
    /\ UNCHANGED <<svars, pvars, tvars, wvars, gvars, prev_out>>

\* squarify is called again with the same arguments (the same view is rendered
\* twice); its locals are new.
SquarifyAgain ==
    /\ sq_pc = "done"
    /\ prev_out = <<>>
    /\ prev_out' = <<out>>
    /\ sq_pc' = "call"
    /\ sq_nodes' = <<>>
    /\ areas' = <<>>
    /\ out' = <<>>
    /\ row' = <<>>
    /\ row_nodes' = <<>>
    /\ remaining' = Rect(Q(0), Q(0), Q(0), Q(0))
    /\ sq_i' = 1
    /\ UNCHANGED <<svars, pvars, wvars, gvars, kids, target, view>>

NextViews ==
    \/ NextTreemap
    \/ TopChildren
    \/ SquarifyAgain

SpecViews == InitTreemap /\ [][NextViews]_vars

\* ------------------------------------------------------------- iter_all_files
\* What os.walk(root, topdown=True, followlinks=False) yields under one root: the
\* number of file names of each directory it visits, in the order of the visit.
\* A root that is missing or cannot be listed yields nothing.
Walks == UNION {[1..n -> 0..MaxWalkFiles] : n \in 0..MaxWalkDirs}

\* The lists of root names iter_all_files is called with.
RootLists == UNION {[1..n -> 1..MaxRoots] : n \in 0..MaxRoots}

\* Calls of iter_all_files(paths, cancel_flag) on their own.
InitWalk ==
    /\ w_paths \in RootLists
    /\ w_fs \in [1..MaxRoots -> Walks]
    /\ w_flag = FALSE
    /\ w_pc = "idle"
    /\ w_root = 1
    /\ w_dir = 1
    /\ w_file = 1
    /\ yielded = <<>>
    /\ w_seen = FALSE
    /\ w_calls = 0
    /\ arg_paths = <<>>
    /\ missing = {}
    /\ top_files_per_dir = 0
    /\ global_top_files = 0
    /\ progress = FALSE
    /\ Idle
    /\ TreemapIdle
    /\ NoViews
    /\ WindowIdle

\* The walk of the root the outer loop is at.
CurWalk == w_fs[w_paths[w_root]]

\* cancel_flag and cancel_flag(), line 154
DirCancelled == w_flag

\* Line 157 with its result ignored.
FileCheckIgnored == FALSE

\* cancel_flag and cancel_flag(), line 157
FileCancelled == w_flag

\* SuspiciousThread.run line 232: a new generator, with the thread's new CancelFlag.
WalkCall ==
    /\ w_pc \in {"idle", "ended"}
    /\ w_calls < MaxCalls
    /\ w_calls' = w_calls + 1
    /\ w_flag' = FALSE
    /\ w_seen' = FALSE
    /\ w_pc' = "walk"
    /\ w_root' = 1
    /\ w_dir' = 1
    /\ w_file' = 1
    /\ yielded' = <<>>
    /\ UNCHANGED <<svars, pvars, tvars, uvars, gvars, w_paths, w_fs>>

\* CancelFlag.cancel() on the flag of the running SuspiciousThread.
WalkCancel ==
    /\ w_pc \in {"walk", "files"}
    /\ ~w_flag
    /\ w_flag' = TRUE
    /\ UNCHANGED <<svars, pvars, tvars, uvars, gvars, w_paths, w_fs, w_pc, w_root, w_dir, w_file,
                   yielded, w_seen, w_calls>>

\* Line 152: no root is left; the generator ends.
WalkEnd ==
    /\ w_pc = "walk"
    /\ w_root > Len(w_paths)
    /\ w_pc' = "ended"
    /\ UNCHANGED <<svars, pvars, tvars, uvars, gvars, w_paths, w_fs, w_flag, w_root, w_dir, w_file,
                   yielded, w_seen, w_calls>>

\* Lines 152-153: os.walk is exhausted for this root; on to the next root.
WalkRootDone ==
    /\ w_pc = "walk"
    /\ w_root <= Len(w_paths)
    /\ w_dir > Len(CurWalk)
    /\ w_root' = w_root + 1
    /\ w_dir' = 1
    /\ UNCHANGED <<svars, pvars, tvars, uvars, gvars, w_paths, w_fs, w_flag, w_pc, w_file,
                   yielded, w_seen, w_calls>>

\* Lines 153-155: os.walk yields the next directory; the flag is evaluated.
WalkDir ==
    /\ w_pc = "walk"
    /\ w_root <= Len(w_paths)
    /\ w_dir <= Len(CurWalk)
    /\ w_seen' = (w_seen \/ w_flag)
    /\ IF DirCancelled
       THEN w_pc' = "ended" /\ UNCHANGED w_file
       ELSE w_pc' = "files" /\ w_file' = 1
    /\ UNCHANGED <<svars, pvars, tvars, uvars, gvars, w_paths, w_fs, w_flag, w_root, w_dir,
                   yielded, w_calls>>

\* Line 156: the file names of the directory are exhausted.
WalkDirDone ==
    /\ w_pc = "files"
    /\ w_file > CurWalk[w_dir]
    /\ w_pc' = "walk"
    /\ w_dir' = w_dir + 1
    /\ UNCHANGED <<svars, pvars, tvars, uvars, gvars, w_paths, w_fs, w_flag, w_root, w_file,
                   yielded, w_seen, w_calls>>

\* Lines 156-159: the flag is evaluated; os.path.join(dirpath, fn) is yielded.
WalkFile ==
    /\ w_pc = "files"
    /\ w_file <= CurWalk[w_dir]
    /\ w_seen' = (w_seen \/ w_flag)
    /\ IF FileCancelled
       THEN w_pc' = "ended" /\ UNCHANGED <<w_file, yielded>>
       ELSE /\ yielded' = Append(yielded, <<w_paths[w_root], w_dir, w_file>>)
            /\ w_file' = w_file + 1
            /\ UNCHANGED w_pc
    /\ UNCHANGED <<svars, pvars, tvars, uvars, gvars, w_paths, w_fs, w_flag, w_root, w_dir, w_calls>>

NextWalk ==
    \/ WalkCall
    \/ WalkCancel
    \/ WalkEnd
    \/ WalkRootDone
    \/ WalkDir
    \/ WalkDirDone
    \/ WalkFile

SpecWalk == InitWalk /\ [][NextWalk]_vars

\* ------------------------------------------------------------- iter_all_files: claims
\* The paths of the files of one directory, of one root, of a list of roots.
DirPaths(r, d, n) == [f \in 1..n |-> <<r, d, f>>]

RECURSIVE RootPaths(_, _)
RootPaths(r, d) ==
    IF d > Len(w_fs[r]) THEN <<>>
    ELSE DirPaths(r, d, w_fs[r][d]) \o RootPaths(r, d + 1)

RECURSIVE ListPaths(_)
ListPaths(rs) ==
    IF rs = <<>> THEN <<>> ELSE RootPaths(rs[1], 1) \o ListPaths(Tail(rs))

IsPrefix(a, b) == Len(a) <= Len(b) /\ a = SubSeq(b, 1, Len(a))

\* C21: iter_all_files yields the path of every file under each given root,
\* roots in the given order; once the cancellation predicate has returned true
\* no further path is yielded and the sequence ends; a fresh call starts again
\* from the first root.
C21_FlatStream ==
    /\ [](IsPrefix(yielded, ListPaths(w_paths)))
    /\ []((w_pc = "ended" /\ ~w_seen) => yielded = ListPaths(w_paths))
    /\ [](w_seen => w_pc = "ended")
    /\ [][(w_seen' /\ w_calls' = w_calls) => yielded' = yielded]_vars
    /\ [][w_calls' # w_calls => (yielded' = <<>> /\ w_root' = 1 /\ w_dir' = 1)]_vars

C21_Witness ==
    /\ w_calls = 2
    /\ w_pc = "ended"
    /\ ~w_seen
    /\ w_paths = <<2, 1>>
    /\ Len(yielded) = 3
    /\ yielded[1] = <<2, 1, 1>>
    /\ yielded[3] = <<1, 2, 1>>

\* ------------------------------------------------------------- claims
\* Sizes of the Nodes of a sequence of Nodes.
SizesOf(nodes) == [k \in 1..Len(nodes) |-> nodes[k].size]

\* A sequence of integers in descending order (insertion sort).
RECURSIVE DescInts(_)
DescInts(s) ==
    IF s = <<>> THEN <<>>
    ELSE LET rest == DescInts(Tail(s))
             k == Cardinality({j \in 1..Len(rest) : rest[j] >= s[1]})
         IN  SubSeq(rest, 1, k) \o <<s[1]>> \o SubSeq(rest, k + 1, Len(rest))

\* The individually named file children, the overflow children and the
\* sub-directory children of a directory Node.
NamedOf(n) == SelectSeq(n.children, LAMBDA c : ~c.is_dir /\ c.name[1] = "base")
OverflowOf(n) == SelectSeq(n.children, LAMBDA c : c.name[1] = "other")

\* The sizes of the files a returned scan_dir call encountered.
SeenSizes(seen) == [k \in 1..Len(seen) |-> seen[k][1]]

RECURSIVE Conserved(_)
Conserved(n) ==
    ~n.is_dir \/ ( /\ n.size = SumSeq(SizesOf(n.children))
                   /\ \A k \in 1..Len(n.children) : Conserved(n.children[k]) )

\* C1 (size conservation): in every ScanResult returned by scan_paths, every
\* directory Node of the tree has size equal to the sum of its children's sizes.
C1_SizeConservation ==
    result # NoResult => Conserved(result[1].root)

\* C2 (overflow exactness): a directory whose listing completed with more than
\* top_files_per_dir files, some of them with bytes that no named child carries,
\* has exactly one overflow child, a non-directory, whose size is the sum of the
\* sizes of the files that are not named children.
C2_OverflowExact ==
    LET excluded == SumSeq(SeenSizes(ret.seen)) - SumSeq(SizesOf(NamedOf(ret.node)))
        over == OverflowOf(ret.node)
    IN  (ret.status = "end" /\ Len(ret.seen) > top_files_per_dir /\ excluded > 0)
        => (Len(over) = 1 /\ ~over[1].is_dir /\ over[1].size = excluded)

\* C3 (per-directory top-K): with top_files_per_dir = K > 0, a directory whose
\* loop ended after n files has exactly min(K, n) named file children, never more
\* than K, and their sizes are the min(K, n) largest of the n file sizes.
C3_PerDirTopK ==
    (ret.status \in {"end", "break"} /\ top_files_per_dir > 0)
    => LET named == NamedOf(ret.node)
           n == Len(ret.seen)
       IN  /\ Len(named) = Min(top_files_per_dir, n)
           /\ Len(named) <= top_files_per_dir
           /\ DescInts(SizesOf(named))
                = SubSeq(DescInts(SeenSizes(ret.seen)), 1, Min(top_files_per_dir, n))

\* C3 witness: a directory with more files than the limit, of different sizes,
\* the largest one met last.
C3_Witness ==
    /\ ret.status = "end"
    /\ top_files_per_dir > 0
    /\ Len(ret.seen) > top_files_per_dir
    /\ \A k \in 1..(Len(ret.seen) - 1) : ret.seen[k][1] < ret.seen[Len(ret.seen)][1]

\* The files of `seen` (pairs <<size, name>>) retained in the given order by a
\* scan_dir call on dir_path: lines 87-109 for each file, then lines 115-129.
RECURSIVE RetainAll(_, _)
RetainAll(f, seen) ==
    IF seen = <<>> THEN f
    ELSE LET g == [f EXCEPT !.local_files_count = @ + 1, !.node.size = @ + seen[1][1]]
         IN  RetainAll(LocalPush(g, seen[1][1], seen[1][2], f.node.path \o <<seen[1][2]>>),
                       Tail(seen))

\* What the retention of a directory shows: named sizes, overflow sizes, size.
Retention(n) ==
    <<DescInts(SizesOf(NamedOf(n))), SizesOf(OverflowOf(n)), n.size>>

\* C4 (order independence): the multiset of named children sizes, the presence
\* and size of the overflow child and the directory size are the same for every
\* order in which the files of a directory are enumerated.
C4_OrderIndependent ==
    (ret.status = "end" /\ ret.node.children = NamedOf(ret.node) \o OverflowOf(ret.node))
    => \A p \in Permutations(1..Len(ret.seen)) :
          Retention(FinishNode(RetainAll(NewFrame(ret.node.path),
                                         [k \in 1..Len(ret.seen) |-> ret.seen[p[k]]])))
            = Retention(ret.node)

\* C5 (global top-K): the top_files of a returned ScanResult has exactly
\* N = min(global_top_files, files) entries, their sizes are the N largest sizes
\* among all files visited, and the sequence is sorted by size descending.
C5_GlobalTopK ==
    result # NoResult
    => LET tf == result[1].top_files
           N == Min(global_top_files, result[1].files)
       IN  /\ Len(tf) = N
           /\ [k \in 1..Len(tf) |-> tf[k][1]] = SubSeq(DescInts(allfiles), 1, N)
           /\ \A k \in 1..(Len(tf) - 1) : tf[k][1] >= tf[k + 1][1]

\* C5 witness: a returned scan that visited more files than the global limit of
\* at least 2, the largest file last.
C5_Witness ==
    /\ result # NoResult
    /\ global_top_files >= 2
    /\ Len(allfiles) > global_top_files
    /\ \A k \in 1..(Len(allfiles) - 1) : allfiles[k] < allfiles[Len(allfiles)]
    /\ Len(result[1].top_files) = global_top_files

RECURSIVE SumStats(_, _, _)
SumStats(es, D, i) ==
    IF D = {} THEN 0
    ELSE LET e == CHOOSE x \in D : TRUE IN es[e][i] + SumStats(es, D \ {e}, i)

\* C6 (extension histogram totals): at every point of a scan and in every
\* returned ScanResult the byte components of ext_stats sum to bytes_scanned
\* and the count components sum to files.
C6_ExtTotals ==
    /\ SumStats(ext_stats, DOMAIN ext_stats, 1) = bytes_scanned
    /\ SumStats(ext_stats, DOMAIN ext_stats, 2) = files
    /\ result # NoResult
       => LET r == result[1]
          IN  /\ SumStats(r.ext_stats, DOMAIN r.ext_stats, 1) = r.bytes_scanned
              /\ SumStats(r.ext_stats, DOMAIN r.ext_stats, 2) = r.files

\* C6 witness: a cancelled scan returned a histogram of two extensions, one of
\* them counting two files.
C6_Witness ==
    /\ result # NoResult
    /\ cancel_seen
    /\ Cardinality(DOMAIN result[1].ext_stats) = 2
    /\ \E e \in DOMAIN result[1].ext_stats : result[1].ext_stats[e][2] = 2
    /\ result[1].bytes_scanned > 0

\* C7 (cancelled outcome is distinguishable): once the cancellation predicate
\* has returned true during a scan, the worker does not emit `done` with a
\* ScanResult and the window does not install one as current_scan.
C7_CancelledNotDelivered ==
    cancel_seen => (signal # "done" /\ current_scan = NoResult)

\* C8 (cancellation promptness): once the cancellation predicate has returned
\* true, no step changes files, dirs, bytes_scanned, ext_stats or the global top
\* heap, no directory is listed, no scan_dir call is entered, and scan_paths
\* does not raise.
C8_CancelPrompt ==
    [][cancel_seen => ( /\ files' = files
                        /\ dirs' = dirs
                        /\ bytes_scanned' = bytes_scanned
                        /\ ext_stats' = ext_stats
                        /\ global_top' = global_top
                        /\ listed' = listed
                        /\ nentries' = nentries
                        /\ Len(stack') <= Len(stack)
                        /\ pc' # "raised" )]_vars

\* C8 witness: cancellation was seen inside a nested scan_dir call after files
\* were counted, and the calling scan_dir has yet to unwind.
C8_Witness ==
    /\ cancel_seen
    /\ pc = "dir"
    /\ stack # <<>>
    /\ files > 0
    /\ ret.status \in {"cancel_top", "break"}

\* C9 (non-existent root): a call whose root list names a path that does not
\* exist, and that nobody cancels, returns no ScanResult.
C9_MissingRootRejected ==
    (missing # {} /\ ~cancel) => result = NoResult

\* C10 (empty root list): a call whose root list is empty or holds only empty
\* strings lists no directory, changes no counter or aggregate, returns no
\* ScanResult, and ends in the error signal, never in `done`.
C10_EmptyRootList ==
    (\A k \in 1..Len(arg_paths) : arg_paths[k] = <<>>)
    => /\ result = NoResult
       /\ current_scan = NoResult
       /\ listed = 0
       /\ files = 0 /\ dirs = 0 /\ bytes_scanned = 0
       /\ ext_stats = NoStats /\ global_top = <<>>
       /\ stack = <<>>
       /\ pc \in {"start", "raised", "finished", "handled"}
       /\ signal # "done"
       /\ pc \in {"finished", "handled"} => signal = "error"

\* C10 witness: a list of empty strings only; the worker emitted `error` and
\* the window handled it.
C10_Witness ==
    /\ arg_paths # <<>>
    /\ \A k \in 1..Len(arg_paths) : arg_paths[k] = <<>>
    /\ pc = "handled"
    /\ signal = "error"

\* ------------------------------------------------------------- squarify: claims
RectArea(r) == QMul(r.w, r.h)
TargetArea == RectArea(target)
PosKids == SelectSeq(kids, LAMBDA n : n.size > 0)
OutAreas == [k \in 1..Len(out) |-> RectArea(out[k][1])]

\* C15: for a target rectangle of positive area A and children of positive
\* sizes summing to S, the areas of the returned rectangles sum to A and the
\* rectangle of each child has area size / S * A.
C15_AreaConserved ==
    (sq_pc = "done" /\ QLess(Q(0), TargetArea) /\ PosKids # <<>>) =>
        LET S == SumSeq(SizesOf(PosKids))
        IN  /\ QSum(OutAreas) = TargetArea
            /\ \A k \in 1..Len(out) :
                  RectArea(out[k][1]) = QDiv(QMul(Q(out[k][2].size), TargetArea), Q(S))

C15_Witness ==
    /\ sq_pc = "done"
    /\ target.w = Q(3)
    /\ target.h = Q(2)
    /\ SizesOf(kids) = <<1, 3, 0>>
    /\ Len(out) = 2
    /\ RectArea(out[1][1]) = <<9, 2>>
    /\ RectArea(out[2][1]) = <<3, 2>>

\* The call is over: squarify returned or raised.
SquarifyOver == sq_pc \in {"done", "raised"}

\* C16: with a zero-area target rectangle, an empty child list or children all
\* of size zero, squarify returns an empty result and never raises.
C16_DegenerateEmpty ==
    (SquarifyOver /\ (TargetArea = Q(0) \/ PosKids = <<>>)) =>
        (sq_pc = "done" /\ out = <<>>)

\* max(w / h, h / w) of a rectangle of positive area
Aspect(r) == QMax(QDiv(r.w, r.h), QDiv(r.h, r.w))

\* The average aspect ratio of a non-empty sequence of rectangles.
AvgAspect(rs) == QDiv(QSum([k \in 1..Len(rs) |-> Aspect(rs[k])]), Q(Len(rs)))

\* The single-row slice layout: all children in one row of _layout_row over the
\* whole target rectangle.
SliceLayout == LayoutRow(areas, target, Horizontal(target)).out

EqualKids == \A j, k \in 1..Len(kids) : kids[j].size = kids[k].size

\* C17: for two or more children of equal positive size, in any target rectangle
\* of positive area, the average aspect ratio of the returned rectangles is no
\* further from 1 than that of the single-row slice layout of the same children.
C17_NotWorseThanSlice ==
    (sq_pc = "done" /\ QLess(Q(0), TargetArea) /\ Len(kids) >= 2
        /\ EqualKids /\ PosKids = kids) =>
        QLeq(AvgAspect([k \in 1..Len(out) |-> out[k][1]]), AvgAspect(SliceLayout))

\* A step that lays out a row (lines 64-68 or 75-78).
RowLaidStep == Len(out') > Len(out)

\* The rectangles the step added.
NewRects == [k \in 1..(Len(out') - Len(out)) |-> out'[Len(out) + k][1]]

\* The row runs along x: what remains has moved along y.
AlongX == remaining'.y # remaining.y

\* The extent of the row along its direction.
RowLength ==
    IF AlongX THEN QSum([k \in 1..Len(NewRects) |-> NewRects[k].w])
    ELSE QSum([k \in 1..Len(NewRects) |-> NewRects[k].h])

\* C18: every finalized row is laid out along the shorter side of the remaining
\* rectangle: its length is min(remaining.w, remaining.h), the side passed to
\* _worst, and what remains shrinks along the other, longer axis.  (Stated for
\* the rows that leave part of the rectangle free: a row that fills it all
\* gives the same rectangles in either direction.)
C18_RowAlongShortSide ==
    [][(RowLaidStep /\ QLess(Q(0), RectArea(remaining'))) =>
          /\ RowLength = QMin(remaining.w, remaining.h)
          /\ RowLength = Short(remaining)
          /\ IF AlongX THEN QLeq(remaining.w, remaining.h)
                       ELSE QLeq(remaining.h, remaining.w)]_vars

\* C19: squarify returns exactly one (rect, Node) pair for each child with
\* size > 0 and none for any other child, each child once and paired with its
\* own rectangle, in descending order of size.
C19_OutputShape ==
    sq_pc = "done" =>
        /\ Len(out) = Len(PosKids)
        /\ \A n \in {kids[k] : k \in 1..Len(kids)} :
              Cardinality({k \in 1..Len(out) : out[k][2] = n})
                  = IF n.size > 0 THEN 1 ELSE 0
        /\ \A k \in 1..Len(out) :
              QMul(RectArea(out[k][1]), Q(SumSeq(SizesOf(PosKids))))
                  = QMul(Q(out[k][2].size), TargetArea)
        /\ \A k \in 1..(Len(out) - 1) : out[k][2].size >= out[k + 1][2].size

C19_Witness ==
    /\ sq_pc = "done"
    /\ SizesOf(kids) = <<2, 0, 3>>
    /\ QLess(Q(0), TargetArea)
    /\ Len(out) = 2
    /\ out[1][2] = kids[3]
    /\ out[2][2] = kids[1]

\* r lies inside t
Inside(r, t) ==
    /\ QLeq(t.x, r.x)
    /\ QLeq(t.y, r.y)
    /\ QLeq(QAdd(r.x, r.w), QAdd(t.x, t.w))
    /\ QLeq(QAdd(r.y, r.h), QAdd(t.y, t.h))

\* the interiors of a and b meet
Overlap(a, b) ==
    /\ QLess(a.x, QAdd(b.x, b.w))
    /\ QLess(b.x, QAdd(a.x, a.w))
    /\ QLess(a.y, QAdd(b.y, b.h))
    /\ QLess(b.y, QAdd(a.y, a.h))

\* C20: every produced rectangle lies inside the target rectangle, no two
\* produced rectangles overlap in their interiors, and after each row what
\* remains is disjoint from everything produced so far.
C20_Tiling ==
    sq_pc \in {"loop", "done", "raised"} =>
        /\ \A k \in 1..Len(out) : Inside(out[k][1], target)
        /\ \A j, k \in 1..Len(out) : j < k => ~Overlap(out[j][1], out[k][1])
        /\ Inside(remaining, target)
        /\ \A k \in 1..Len(out) : ~Overlap(out[k][1], remaining)

C20_Witness ==
    /\ sq_pc = "done"
    /\ Len(out) = 3
    /\ out[1][1].y = out[2][1].y
    /\ out[1][1].x # out[2][1].x
    /\ out[3][1].y # out[1][1].y
    /\ QLess(Q(0), RectArea(out[3][1]))

\* C26: squarify and top_children_for_view do not modify their inputs (the
\* caller's child list keeps its length and order, no Node changes) and keep no
\* state between calls: two calls with equal arguments return equal results.
C26_TreemapPure ==
    /\ [][kids' = kids /\ target' = target]_vars
    /\ []((sq_pc = "done" /\ prev_out # <<>>) => out = prev_out[1])
    /\ [][(view # <<>> /\ view' # <<>> /\ view'[1].limit = view[1].limit)
             => view'[1].result = view[1].result]_vars

C26_Witness ==
    /\ sq_pc = "done"
    /\ prev_out # <<>>
    /\ SizesOf(kids) = <<1, 3, 2>>
    /\ Len(out) = 3
    /\ QLess(Q(0), TargetArea)
    /\ view # <<>>
    /\ view[1].limit = 2
    /\ SizesOf(view[1].result) = <<3, 2>>

\* The rectangle passed to squarify has no area: one of its sides is zero.
ZeroArea == target.w = Q(0) \/ target.h = Q(0)

\* An iteration of the loop of line 58.
LoopStep == sq_pc = "loop" /\ sq_i <= Len(sq_nodes) /\ sq_pc' = "loop"

\* C27: squarify's loop terminates for every child list and every rectangle of
\* positive area: an iteration that does not consume its item empties the row,
\* an iteration that starts with an empty row consumes its item, so each item
\* is consumed after at most two iterations.
C27_LoopTerminates ==
    /\ <>(sq_pc = "done" \/ ZeroArea)
    /\ [](ZeroArea <=> ~QLess(Q(0), TargetArea))
    /\ [][(LoopStep /\ sq_i' = sq_i) => (row # <<>> /\ row' = <<>>)]_vars
    /\ [][(LoopStep /\ row = <<>>) => sq_i' = sq_i + 1]_vars
    /\ [][LoopStep => sq_i' \in {sq_i, sq_i + 1}]_vars

C27_Witness ==
    /\ sq_pc = "done"
    /\ QLess(Q(0), TargetArea)
    /\ Len(kids) = 3
    /\ Len(out) = 3
    /\ out[1][1].y # out[2][1].y
    /\ out[2][1].y # out[3][1].y

\* The window after construction.
InitWindow ==
    /\ Idle
    /\ TreemapIdle
    /\ NoViews
    /\ WalkIdle
    /\ WindowIdle
    /\ arg_paths = <<>>
    /\ missing = {}
    /\ top_files_per_dir = 0
    /\ global_top_files = 0
    /\ progress = FALSE

\* ScanThread.__init__: a thread with a CancelFlag of its own, not set.
NewScanThread == [state |-> "running", flag |-> FALSE]

\* The ScanThreads whose run() has not returned.
RunningThreads == {i \in 1..Len(win_threads) : win_threads[i].state = "running"}

\* MainWindow.start_scan (button btn_scan, never disabled): returns early when
\* no path is selected or one does not exist, else clears current_scan and
\* starts a new ScanThread, whatever the previous one is doing.
StartScan ==
    /\ Len(win_threads) < MaxScans
    /\ \E valid \in BOOLEAN :
          IF valid
          THEN /\ win_current' = 0
               /\ win_threads' = Append(win_threads, NewScanThread)
               /\ win_scan_thread' = Len(win_threads) + 1
          ELSE UNCHANGED gvars
    /\ UNCHANGED <<svars, pvars, tvars, wvars, uvars>>

\* MainWindow.cancel_scan: if self.scan_thread: self.scan_thread.cancel_flag.cancel()
CancelScan ==
    /\ IF win_scan_thread # 0
       THEN win_threads' = [win_threads EXCEPT ![win_scan_thread].flag = TRUE]
       ELSE UNCHANGED win_threads
    /\ UNCHANGED <<svars, pvars, tvars, wvars, uvars, win_scan_thread, win_current>>

\* ScanThread.run comes to its end: done or error is emitted, to be delivered
\* to the window's thread.
WorkerEnds ==
    /\ \E i \in RunningThreads, sig \in {"done", "error"} :
          win_threads' = [win_threads EXCEPT ![i].state = sig]
    /\ UNCHANGED <<svars, pvars, tvars, wvars, uvars, win_scan_thread, win_current>>

\* MainWindow.on_scan_done for the done signal of any ScanThread connected in
\* start_scan: self.current_scan = result
WindowScanDone ==
    /\ \E i \in 1..Len(win_threads) :
          /\ win_threads[i].state = "done"
          /\ win_threads' = [win_threads EXCEPT ![i].state = "handled"]
          /\ win_current' = i
    /\ UNCHANGED <<svars, pvars, tvars, wvars, uvars, win_scan_thread>>

\* MainWindow.on_scan_error: current_scan is left alone.
WindowScanError ==
    /\ \E i \in 1..Len(win_threads) :
          /\ win_threads[i].state = "error"
          /\ win_threads' = [win_threads EXCEPT ![i].state = "handled"]
    /\ UNCHANGED <<svars, pvars, tvars, wvars, uvars, win_scan_thread, win_current>>

NextWindow ==
    \/ StartScan
    \/ CancelScan
    \/ WorkerEnds
    \/ WindowScanDone
    \/ WindowScanError

SpecWindow == InitWindow /\ [][NextWindow]_vars

\* C30: under any interleaving of start_scan, cancel_scan and worker
\* completion at most one ScanThread is running, cancel_scan sets the flag of
\* the worker that is running, and current_scan is only ever the result of the
\* most recently started scan.
C30_SingleActiveScan ==
    /\ [](Cardinality(RunningThreads) <= 1)
    /\ [][\A i \in 1..Len(win_threads) :
             (win_threads'[i].flag /\ ~win_threads[i].flag) => RunningThreads \subseteq {i}]_vars
    /\ [](win_current # 0 => win_current = Len(win_threads))

\* C11: a completed scan of k >= 2 root paths returns one synthetic root, a
\* directory whose path is the root paths joined by ';', with exactly k children,
\* the i-th being the directory Node of the i-th root path, and whose size is
\* the sum of its children's sizes.
C11_MultiRoot ==
    (result # NoResult /\ ~cancel_seen /\ Len(paths) >= 2) =>
        LET r == result[1].root
        IN  /\ r.is_dir
            /\ r.path = JoinPaths(paths)
            /\ r.path # paths[1]
            /\ Len(r.children) = Len(paths)
            /\ \A k \in 1..Len(paths) :
                  /\ r.children[k].is_dir
                  /\ r.children[k].path = paths[k]
                  /\ r.children[k].name = BaseName(paths[k])
            /\ r.size = SumSeq(SizesOf(r.children))

C11_Witness ==
    /\ result # NoResult
    /\ ~cancel_seen
    /\ Len(paths) = 2
    /\ result[1].root.children[1].size = 1
    /\ result[1].root.children[2].size = 2

\* A step in which an entry was fetched and neither counted as a file nor as a
\* directory: the entry was skipped (lines 70-79).
SkipStep == nentries' = nentries + 1 /\ files' = files /\ dirs' = dirs

\* C12: an entry whose is_symlink() or stat() raises an OSError is skipped: the
\* counters, ext_stats, the heaps and every Node's size and children stay as
\* they were, and the walk goes on with the next entry of the same directory.
C12_EntryFailureAbsorbed ==
    [][SkipStep =>
          /\ UNCHANGED <<files, dirs, bytes_scanned, ext_stats, global_top, root,
                         stack, ret, result, allfiles>>
          /\ pc' = "dir"
          /\ stack'[Len(stack')].st = "iter"]_vars

C12_Witness ==
    /\ ret.status = "end"
    /\ listed = 1
    /\ nentries = 2
    /\ files = 1
    /\ dirs = 0
    /\ ret.node.size = 2
    /\ Len(ret.node.children) = 1

\* A step in which os.scandir was called and the scan_dir call ended at once:
\* the directory could not be listed.
OpenFailStep == listed' = listed + 1 /\ Len(stack') < Len(stack)

\* C13: a directory that cannot be listed yields a Node with is_dir true, size 0
\* and no children; the error is not propagated, the sizes of the ancestors are
\* unaffected, and the caller (the parent's entry loop, or the loop over the
\* roots) goes on with what remains.
C13_DirFailureAbsorbed ==
    [][OpenFailStep =>
          LET f == stack[Len(stack)]
              n == Len(stack) - 1
          IN  /\ ret'.node = Node(BaseName(f.node.path), f.node.path, TRUE, 0, <<>>)
              /\ UNCHANGED <<files, dirs, bytes_scanned, ext_stats, global_top, result>>
              /\ Len(stack') = n
              /\ \A j \in 1..n : stack'[j].node.size = stack[j].node.size
              /\ root'.size = root.size
              /\ IF n = 0
                 THEN /\ pc' = "roots"
                      /\ nextroot' = nextroot + 1
                      /\ root'.children = Append(root.children, ret'.node)
                 ELSE /\ pc' = "dir"
                      /\ stack'[n].st = "iter"
                      /\ stack'[n].node.children =
                            Append(stack[n].node.children, ret'.node)
                      /\ root' = root]_vars

C13_Witness ==
    /\ ret.status = "open_fail"
    /\ pc = "dir"
    /\ stack[Len(stack)].st = "iter"
    /\ stack[Len(stack)].node.size = 2
    /\ Len(stack[Len(stack)].node.children) = 1

\* C14: any two consecutive calls of the progress callback within one scan are
\* at least 100 ms apart, however many entries were processed in between.
C14_ProgressThrottled == call_gap = -1 \/ call_gap >= ThrottleTicks

C14_Witness ==
    /\ call_gap = ThrottleTicks + 1
    /\ last_progress # <<>>
    /\ last_progress[1].files = 3
    /\ elapsed = 0

\* C22: a directory gets an overflow child only when the bytes of its files
\* that are not named children are positive; a directory with at most
\* top_files_per_dir files gets none, no overflow child has size 0, and no
\* directory has more than one.
C22_OverflowRule ==
    LET over == OverflowOf(ret.node)
        excluded == SumSeq(SeenSizes(ret.seen)) - SumSeq(SizesOf(NamedOf(ret.node)))
    IN  /\ Len(over) <= 1
        /\ \A k \in 1..Len(over) : over[k].size > 0 /\ excluded > 0
        /\ Len(ret.seen) <= top_files_per_dir => over = <<>>

C22_Witness ==
    /\ ret.status = "end"
    /\ top_files_per_dir = 1
    /\ Len(ret.seen) = 3
    /\ Len(OverflowOf(ret.node)) = 1
    /\ OverflowOf(ret.node)[1].size = 2

\* A step that meets a symbolic link.
LinkStep == links' = links + 1

\* C23: with follow_symlinks = False an entry that is a symbolic link is neither
\* descended into nor measured: it changes none of files, dirs, bytes_scanned,
\* ext_stats, top_files, and no Node's size or children.
C23_SymlinkIgnored ==
    [][LinkStep =>
          /\ UNCHANGED <<files, dirs, bytes_scanned, ext_stats, global_top, allfiles>>
          /\ UNCHANGED <<root, stack, ret, result>>
          /\ listed' = listed
          /\ nentries' = nentries + 1]_vars

C23_Witness ==
    /\ links = 1
    /\ ret.status = "end"
    /\ listed = 1
    /\ nentries = 2
    /\ files = 1
    /\ bytes_scanned = 1
    /\ ret.node.size = 1

\* The paths of all Nodes of the tree under n, n first.
RECURSIVE PathsIn(_)
PathsIn(n) ==
    LET RECURSIVE Of(_)
        Of(cs) == IF cs = <<>> THEN <<>> ELSE PathsIn(cs[1]) \o Of(Tail(cs))
    IN  <<n.path>> \o Of(n.children)

\* C25: within one tree returned by scan_paths no two distinct Nodes have the
\* same path.
C25_UniquePaths ==
    result # NoResult =>
        LET ps == PathsIn(result[1].root)
        IN  \A j, k \in 1..Len(ps) : j # k => ps[j] # ps[k]

\* C28: in every ScanResult returned by scan_paths, whether the scan completed,
\* was cancelled part-way, skipped entries or met unlistable directories,
\* root.size equals bytes_scanned.
C28_RootSizeIsBytes ==
    result # NoResult =>
        /\ result[1].root.size = result[1].bytes_scanned
        /\ result[1].bytes_scanned = SumSeq(allfiles)

C28_Witness ==
    /\ result # NoResult
    /\ cancel_seen
    /\ nentries > files + dirs
    /\ dirs = 1
    /\ result[1].root.size = 2

\* An entry has been processed to the point where emit is called (line 111):
\* a file was counted, or a sub-directory returned to an active scan_dir call.
EntryProcessed ==
    \/ files >= 1
    \/ \E k \in 1..Len(stack) : stack[k].node.children # <<>>

\* A step in which the progress callback is called.
ProgressStep == last_progress' # last_progress

\* C29: the first processed entry of a scan triggers a progress callback; each
\* callback receives files, dirs and bytes_scanned as they are at that moment;
\* the values of successive callbacks are component-wise non-decreasing.
C29_ProgressValues ==
    /\ [](EntryProcessed => last_progress # <<>>)
    /\ [][ProgressStep =>
             /\ last_progress'[1].files = files'
             /\ last_progress'[1].dirs = dirs'
             /\ last_progress'[1].bytes = bytes_scanned'
             /\ last_progress # <<>> =>
                   /\ last_progress'[1].files >= last_progress[1].files
                   /\ last_progress'[1].dirs >= last_progress[1].dirs
                   /\ last_progress'[1].bytes >= last_progress[1].bytes]_vars

C29_Witness ==
    /\ last_progress # <<>>
    /\ call_gap = ThrottleTicks
    /\ last_progress[1].files = 2
    /\ last_progress[1].dirs = 1
    /\ last_progress[1].bytes = 3
    /\ last_progress[1].cur = <<1>>

\* C24: a scan over a finite directory tree terminates whether or not
\* cancellation is requested, and the run of ScanThread then emits exactly one
\* terminal signal, done or error, never both and never neither; a cancel
\* request alone never terminates the worker.
C24_WorkerStops ==
    /\ <>(signal # "none")
    /\ [][signal # "none" => signal' = signal]_vars
    /\ [][cancel' # cancel =>
             (pc' = pc /\ signal' = signal /\ stack' = stack /\ result' = result)]_vars

C24_Witness ==
    /\ signal = "done"
    /\ pc = "finished"
    /\ cancel
    /\ ~cancel_seen
    /\ files = 2

Next ==
    \/ Cancel \/ Begin \/ BeginRaises \/ CallRoot \/ Return
    \/ ScanDirCancelled \/ ScanDirOpen \/ ScanDirOpenFails
    \/ IterCancelled \/ IterEnd \/ IterFails
    \/ EntrySymlink \/ EntryStatFails \/ EntryDir \/ EntryFile
    \/ ThreadDone \/ ThreadError \/ OnScanDone \/ OnScanError

Spec == Init /\ [][Next]_vars

SpecProgress == InitProgress /\ [][Next]_vars

\* The steps of the worker thread: ScanThread.run and all it calls.
WorkerStep ==
    \/ Begin
    \/ BeginRaises
    \/ CallRoot
    \/ Return
    \/ ScanDirCancelled
    \/ ScanDirOpen
    \/ ScanDirOpenFails
    \/ IterCancelled
    \/ IterEnd
    \/ IterFails
    \/ EntrySymlink
    \/ EntryStatFails
    \/ EntryDir
    \/ EntryFile
    \/ ThreadDone
    \/ ThreadError

\* A started thread keeps running: the worker is not starved.
SpecLive == InitLive /\ [][Next]_vars /\ WF_vars(WorkerStep)
====
